---- MODULE Spec2Model ----
(***************************************************************************)
(* R-Car VSP1 display list manager (vsp1_dl.c): the free pool, the three   *)
(* pipeline slots (active, queued, pending), commit in continuous and in   *)
(* single-shot mode, the frame end interrupt handler, reset and the        *)
(* fragments garbage collector.                                            *)
(*                                                                         *)
(* The kernel's intrusive lists (struct list_head) are modelled at pointer *)
(* level for the free pool and for the partition chain, so that a node     *)
(* added twice corrupts the list the way it does in the kernel.  Fragment  *)
(* lists are sequences.                                                    *)
(***************************************************************************)
EXTENDS Integers, Sequences, FiniteSets, TLC

\* ------------------------------------------------------------- bounds
\* prealloc argument of vsp1_dlm_create: the number of display lists.
NumLists == 3
\* prealloc of the managers whose lists get bodies, fragments and chains.
FewLists == 2
\* Entries a caller writes to one body (up to VSP1_DL_NUM_ENTRIES).
MaxEntries == 1
\* Fragments vsp1_dl_fragment_alloc hands out over a run.
MaxFrags == 1
\* Fragments handed out over a run of the garbage collector's steps.
ManyFrags == 2
\* prealloc of the managers of a single display list.
OneList == 1
\* Entries of a body whose contents are kept.
ManyEntries == 2
\* Register offsets and register values a caller writes: 1..MaxReg, 1..MaxData.
MaxReg == 1
MaxData == 2

\* ---------------------------------------------------------- constants
NULL == 0
\* list_del() leaves the removed node's pointers poisoned.
POISON == -1
EINVAL == 22
\* sizeof(struct vsp1_dl_header_list): the size of one entry as well.
ENTRY_SIZE == 8
\* The body descriptors of struct vsp1_dl_header: lists[8].
HEADER_LISTS == 8
VSP1_DLH_INT_ENABLE == 2
VSP1_DLH_AUTO_START == 1
VSP1_DL_NUM_ENTRIES == 256
\* sizeof(u32)
U32_SIZE == 4
\* sizeof(struct vsp1_dl_header), packed: num_lists, lists[8], next_header
\* and flags.
HEADER_SIZE == U32_SIZE + HEADER_LISTS * ENTRY_SIZE + U32_SIZE + U32_SIZE
\* The distance between the device addresses of two bodies in the model:
\* more than the size of the largest allocation.
DmaSlot == 4096

VSP1_DL_MODE_HEADER == "HEADER"
VSP1_DL_MODE_HEADERLESS == "HEADERLESS"
VSP1_DL_FRAME_END_COMPLETED == "COMPLETED"
VSP1_DL_FRAME_END_INTERNAL == "INTERNAL"

\* Node 0 of the free pool is the list head &dlm->free; node l is &dl->list.
HEAD == NULL

VARIABLES
    mode,          \* dlm->mode
    singleshot,    \* dlm->singleshot
    free,          \* dlm->free and every dl->list: [next, prev] over HEAD and the lists
    active,        \* dlm->active
    queued,        \* dlm->queued
    pending,       \* dlm->pending
    gc_fragments,  \* dlm->gc_fragments
    gc_work,       \* dlm->gc_work is scheduled
    dl,            \* the display lists: num_entries, fragments, has_chain, internal,
                   \* header
    chain,         \* every dl->chain: [next, prev] over Lists
    dlb,           \* the fragments: state, num_entries
    hw,            \* the VSP1: update bit, DL registers, latched list, raised irq
    owned,         \* the display lists callers hold
    nget,          \* vsp1_dl_list_get calls since creation, -1 once a list came back
    rst,           \* vsp1_dlm_reset has dropped the lock and not cleared the slots yet
    overtaken,     \* the pending list was committed before the list written last
                   \* to the hardware
    entries,       \* body0.entries of every list and dlb->entries of every
                   \* fragment; arrays of length 0 where the contents of the
                   \* bodies are left out
    mem,           \* the allocations: whether vsp1_dlm_create returned the
                   \* manager (created), whether vsp1_dlm_destroy ran on it
                   \* (destroyed) and how often each list was freed (freed)
    delayed,       \* the queued list whose completion the last interrupt put off
    last,          \* the last call: op, dl, flags, ret, warn
    gc             \* the worker that runs gc_work: pc, the fragment it holds
                   \* (dlb), whether it holds dlm->lock

vars == <<mode, singleshot, free, active, queued, pending, gc_fragments,
          gc_work, dl, chain, dlb, hw, owned, nget, rst, overtaken, entries, mem,
          delayed, last, gc>>

\* The display lists vsp1_dlm_create allocated.
Lists == DOMAIN dl
\* The fragments vsp1_dl_fragment_alloc can hand out.
Frags == DOMAIN dlb

\* ------------------------------------------------- struct list_head
\* INIT_LIST_HEAD(h)
INIT_LIST_HEAD(L, h) ==
    [next |-> [L.next EXCEPT ![h] = h], prev |-> [L.prev EXCEPT ![h] = h]]

\* list_empty(h)
list_empty(L, h) == L.next[h] = h

\* __list_add(new, prev, next) as list_add_tail(new, head) calls it: the four
\* stores in the kernel's order, each reading what the earlier ones wrote.
list_add_tail(L, new, head) ==
    LET prev == L.prev[head]
        a == [L EXCEPT !.prev[head] = new]
        b == [a EXCEPT !.next[new] = head]
        c == [b EXCEPT !.prev[new] = prev]
        d == [c EXCEPT !.next[prev] = new]
    IN  d

\* list_del(entry): unlink between the neighbours the entry names, then poison.
list_del(L, entry) ==
    LET n == L.next[entry]
        p == L.prev[entry]
        a == IF n \in DOMAIN L.prev THEN [L EXCEPT !.prev[n] = p] ELSE L
        b == IF p \in DOMAIN a.next THEN [a EXCEPT !.next[p] = n] ELSE a
    IN  [b EXCEPT !.next[entry] = POISON, !.prev[entry] = POISON]

\* The nodes a forward walk from head visits (list_for_each_entry), cut after
\* fuel steps when the list no longer leads back to head.
RECURSIVE Walk(_, _, _, _)
Walk(L, head, cur, fuel) ==
    IF cur = head \/ fuel = 0 \/ cur \notin DOMAIN L.next THEN <<>>
    ELSE <<cur>> \o Walk(L, head, L.next[cur], fuel - 1)

WalkFuel == NumLists + 2

\* The free pool in list order.
FreeSeq == Walk(free, HEAD, free.next[HEAD], WalkFuel)
\* The display lists chained to head, in chain order.
ChainSeq(head) == Walk(chain, head, chain.next[head], WalkFuel)

Range(s) == {s[i] : i \in DOMAIN s}

\* ------------------------------------------------------ the heap
\* What the driver's functions read and write, as one record, so that each
\* function is an operator from heap to heap.
Heap ==
    [free |-> free, active |-> active, queued |-> queued, pending |-> pending,
     gc_fragments |-> gc_fragments, gc_work |-> gc_work, dl |-> dl,
     chain |-> chain, hw |-> hw]

SetHeap(st) ==
    /\ free' = st.free
    /\ active' = st.active
    /\ queued' = st.queued
    /\ pending' = st.pending
    /\ gc_fragments' = st.gc_fragments
    /\ gc_work' = st.gc_work
    /\ dl' = st.dl
    /\ chain' = st.chain
    /\ hw' = st.hw

\* ------------------------------------------- display list get and put
\* vsp1_dl_list_get: the first list of the free pool, its chain node
\* re-initialised; NULL when the pool is empty.
\* vsp1_dl_list_get without the list_del: the list stays in the pool.
GetNoDel(st) ==
    IF list_empty(st.free, HEAD) THEN [st |-> st, ret |-> NULL]
    ELSE LET x == st.free.next[HEAD]
         IN  [st |-> [st EXCEPT !.chain = INIT_LIST_HEAD(st.chain, x)], ret |-> x]

\* vsp1_dl_list_get without INIT_LIST_HEAD(&dl->chain).
GetNoChainInit(st) ==
    IF list_empty(st.free, HEAD) THEN [st |-> st, ret |-> NULL]
    ELSE LET x == st.free.next[HEAD]
         IN  [st |-> [st EXCEPT !.free = list_del(st.free, x)], ret |-> x]

vsp1_dl_list_get(st) ==
    IF list_empty(st.free, HEAD) THEN [st |-> st, ret |-> NULL]
    ELSE LET x == st.free.next[HEAD]
         IN  [st |-> [st EXCEPT !.free = list_del(st.free, x),
                                !.chain = INIT_LIST_HEAD(st.chain, x)],
              ret |-> x]

\* The tail of __vsp1_dl_list_put without schedule_work.
PutSelfNoWork(st, x) ==
    LET a == [st EXCEPT !.dl[x].has_chain = FALSE]
        b == IF a.dl[x].fragments # <<>>
             THEN [a EXCEPT !.gc_fragments = a.dl[x].fragments \o a.gc_fragments,
                            !.dl[x].fragments = <<>>]
             ELSE a
        c == [b EXCEPT !.dl[x].num_entries = 0]
    IN  [c EXCEPT !.free = list_add_tail(c.free, x, HEAD)]

\* The tail of __vsp1_dl_list_put with list_splice in place of
\* list_splice_init: the fragments stay on the list as well.
PutSelfKeepsFragments(st, x) ==
    LET a == [st EXCEPT !.dl[x].has_chain = FALSE]
        b == IF a.dl[x].fragments # <<>>
             THEN [a EXCEPT !.gc_fragments = a.dl[x].fragments \o a.gc_fragments,
                            !.gc_work = TRUE]
             ELSE a
        c == [b EXCEPT !.dl[x].num_entries = 0]
    IN  [c EXCEPT !.free = list_add_tail(c.free, x, HEAD)]

\* The tail of __vsp1_dl_list_put, after the chained lists are released.
PutSelf(st, x) ==
    LET a == [st EXCEPT !.dl[x].has_chain = FALSE]
        \* list_splice_init(&dl->fragments, &dlm->gc_fragments); schedule_work
        b == IF a.dl[x].fragments # <<>>
             THEN [a EXCEPT !.gc_fragments = a.dl[x].fragments \o a.gc_fragments,
                            !.dl[x].fragments = <<>>,
                            !.gc_work = TRUE]
             ELSE a
        c == [b EXCEPT !.dl[x].num_entries = 0]
    IN  [c EXCEPT !.free = list_add_tail(c.free, x, HEAD)]

\* __vsp1_dl_list_put: NULL is a no-op; the lists chained to x are released
\* first (list_for_each_entry over x's chain), then x itself.
\* __vsp1_dl_list_put without the loop over the chained lists.
PutHeadOnly(st, x, fuel) ==
    IF x = NULL THEN st ELSE PutSelf(st, x)

RECURSIVE PutFrom(_, _, _)
RECURSIVE PutChildren(_, _, _, _)
PutFrom(st, x, fuel) ==
    IF x = NULL THEN st
    ELSE LET a == IF st.dl[x].has_chain /\ fuel > 0
                  THEN PutChildren(st, x, st.chain.next[x], fuel - 1)
                  ELSE st
         IN  PutSelf(a, x)

PutChildren(st, head, cur, fuel) ==
    IF cur = head \/ cur \notin Lists \/ fuel = 0 THEN st
    ELSE LET a == PutFrom(st, cur, fuel)
         IN  PutChildren(a, head, a.chain.next[cur], fuel - 1)

\* __vsp1_dl_list_put scheduling the garbage collector before its NULL test.
PutNullSchedulesWork(st, x) ==
    IF x = NULL THEN [st EXCEPT !.gc_work = TRUE] ELSE PutFrom(st, x, WalkFuel)

__vsp1_dl_list_put(st, x) == PutFrom(st, x, WalkFuel)

\* ------------------------------------------------------- hardware
\* vsp1_dl_list_hw_update_pending: with nothing queued the register is not
\* read; otherwise the UPD bit (headerless) or the UPDHDR bit (header mode).
\* vsp1_dl_list_hw_update_pending without the test of dlm->queued.
UpdatePendingReadsBit(st) == st.hw.upd

vsp1_dl_list_hw_update_pending(st) ==
    IF st.queued = NULL THEN FALSE ELSE st.hw.upd

\* vsp1_dl_list_hw_enqueue: headerless mode writes the body address and the
\* body size with the UPD bit; header mode writes the header address, which
\* raises UPDHDR.
vsp1_dl_list_hw_enqueue(st, x) ==
    IF mode = VSP1_DL_MODE_HEADERLESS
    THEN [st EXCEPT !.hw.hdr_addr = x,
                    !.hw.body_size = st.dl[x].num_entries * ENTRY_SIZE,
                    !.hw.upd = TRUE]
    ELSE [st EXCEPT !.hw.hdr_addr = x, !.hw.upd = TRUE]

\* ---------------------------------------------------------- header
\* The device address of a header in a register or in next_header is the
\* identity of its list, and the device address of a fragment in a header
\* is the identity of the fragment; the device address of a body is a
\* number (body0.dma).
\* dl->header of a headerless list (a NULL pointer).
NoHeader == <<>>

\* The header of a list after vsp1_dl_list_alloc: zeroed, lists[0].addr set
\* to addr, the device address of the list's body.
HeaderAlloc(addr) ==
    [num_lists |-> 0,
     lists |-> [i \in 1..HEADER_LISTS |->
                   [num_bytes |-> 0, addr |-> IF i = 1 THEN addr ELSE NULL]],
     next_header |-> NULL,
     flags |-> 0]

\* hdr->addr = ...; hdr->num_bytes = ... for hdr = &header->lists[i].  The
\* struct is packed: lists[8] would be next_header and flags.
HdrStore(h, i, e) ==
    IF i < HEADER_LISTS THEN [h EXCEPT !.lists[i + 1] = e]
    ELSE IF i = HEADER_LISTS
         THEN [h EXCEPT !.next_header = e.num_bytes, !.flags = e.addr]
         ELSE h

\* The loop over the fragments without its hdr++.
RECURSIVE HdrFragmentsNoAdvance(_, _, _)
HdrFragmentsNoAdvance(h, fs, i) ==
    IF i > Len(fs) THEN h
    ELSE HdrFragmentsNoAdvance(
             HdrStore(h, 0, [num_bytes |-> dlb[fs[i]].num_entries * ENTRY_SIZE,
                             addr |-> fs[i]]),
             fs, i + 1)

RECURSIVE HdrFragments(_, _, _)
HdrFragments(h, fs, i) ==
    IF i > Len(fs) THEN h
    ELSE HdrFragments(HdrStore(h, i, [num_bytes |-> dlb[fs[i]].num_entries * ENTRY_SIZE,
                                      addr |-> fs[i]]),
                      fs, i + 1)

\* vsp1_dl_list_fill_header enabling the interrupt on every list.
FillHeaderAlwaysInterrupts(st, x, is_last) ==
    LET d == st.dl[x]
        a == [d.header EXCEPT !.lists[1].num_bytes = d.num_entries * ENTRY_SIZE]
        b == HdrFragments(a, d.fragments, 1)
        c == [b EXCEPT !.num_lists = Len(d.fragments)]
        e == IF ~list_empty(st.chain, x) /\ ~is_last
             THEN [c EXCEPT !.next_header = st.chain.next[x],
                            !.flags = VSP1_DLH_INT_ENABLE + VSP1_DLH_AUTO_START]
             ELSE IF ~singleshot
                  THEN [c EXCEPT !.next_header = x,
                                 !.flags = VSP1_DLH_INT_ENABLE + VSP1_DLH_AUTO_START]
                  ELSE [c EXCEPT !.flags = VSP1_DLH_INT_ENABLE]
    IN  [st EXCEPT !.dl[x].header = e]

\* vsp1_dl_list_fill_header(dl, is_last)
vsp1_dl_list_fill_header(st, x, is_last) ==
    LET d == st.dl[x]
        a == [d.header EXCEPT !.lists[1].num_bytes = d.num_entries * ENTRY_SIZE]
        b == HdrFragments(a, d.fragments, 1)
        c == [b EXCEPT !.num_lists = Len(d.fragments)]
        e == IF ~list_empty(st.chain, x) /\ ~is_last
             THEN [c EXCEPT !.next_header = st.chain.next[x],
                            !.flags = VSP1_DLH_AUTO_START]
             ELSE IF ~singleshot
                  THEN [c EXCEPT !.next_header = x,
                                 !.flags = VSP1_DLH_INT_ENABLE + VSP1_DLH_AUTO_START]
                  ELSE [c EXCEPT !.flags = VSP1_DLH_INT_ENABLE]
    IN  [st EXCEPT !.dl[x].header = e]

\* The loop over the chained lists passing is_last = false for every list.
RECURSIVE FillChildrenNeverLast(_, _, _, _)
FillChildrenNeverLast(st, head, cur, fuel) ==
    IF cur = head \/ cur \notin Lists \/ fuel = 0 THEN st
    ELSE FillChildrenNeverLast(vsp1_dl_list_fill_header(st, cur, FALSE),
                               head, st.chain.next[cur], fuel - 1)

\* The loop of vsp1_dl_list_commit over the lists chained to head.
RECURSIVE FillChildren(_, _, _, _)
FillChildren(st, head, cur, fuel) ==
    IF cur = head \/ cur \notin Lists \/ fuel = 0 THEN st
    ELSE FillChildren(vsp1_dl_list_fill_header(st, cur, st.chain.next[cur] = head),
                      head, st.chain.next[cur], fuel - 1)

FillHeaders(st, x) ==
    IF mode = VSP1_DL_MODE_HEADER
    THEN FillChildren(vsp1_dl_list_fill_header(st, x, list_empty(st.chain, x)),
                      x, st.chain.next[x], WalkFuel)
    ELSE st

\* ---------------------------------------------------------- commit
\* Both return the heap and whether WARN_ON fired.
\* vsp1_dl_list_commit_continuous without the update pending test.
CommitAlwaysQueues(st, x) ==
    LET a == vsp1_dl_list_hw_enqueue(st, x)
        b == __vsp1_dl_list_put(a, a.queued)
    IN  [st |-> [b EXCEPT !.queued = x], warn |-> FALSE]

\* The continuous commit that makes every list the pending list.
CommitAlwaysPends(st, x) ==
    LET w == st.pending # NULL /\ st.dl[st.pending].internal
        a == __vsp1_dl_list_put(st, st.pending)
    IN  [st |-> [a EXCEPT !.pending = x], warn |-> w]

\* The continuous commit refusing to replace a pending list that is internal.
CommitKeepsInternalPending(st, x) ==
    IF vsp1_dl_list_hw_update_pending(st)
    THEN LET w == st.pending # NULL /\ st.dl[st.pending].internal
             a == __vsp1_dl_list_put(st, st.pending)
         IN  IF w THEN [st |-> __vsp1_dl_list_put(st, x), warn |-> w]
                  ELSE [st |-> [a EXCEPT !.pending = x], warn |-> w]
    ELSE LET a == vsp1_dl_list_hw_enqueue(st, x)
             b == __vsp1_dl_list_put(a, a.queued)
         IN  [st |-> [b EXCEPT !.queued = x], warn |-> FALSE]

\* The continuous commit overwriting the queued list without releasing it.
CommitDropsQueued(st, x) ==
    IF vsp1_dl_list_hw_update_pending(st)
    THEN LET w == st.pending # NULL /\ st.dl[st.pending].internal
             a == __vsp1_dl_list_put(st, st.pending)
         IN  [st |-> [a EXCEPT !.pending = x], warn |-> w]
    ELSE LET a == vsp1_dl_list_hw_enqueue(st, x)
         IN  [st |-> [a EXCEPT !.queued = x], warn |-> FALSE]

vsp1_dl_list_commit_continuous(st, x) ==
    IF vsp1_dl_list_hw_update_pending(st)
    THEN LET w == st.pending # NULL /\ st.dl[st.pending].internal
             a == __vsp1_dl_list_put(st, st.pending)
         IN  [st |-> [a EXCEPT !.pending = x], warn |-> w]
    ELSE LET a == vsp1_dl_list_hw_enqueue(st, x)
             b == __vsp1_dl_list_put(a, a.queued)
         IN  [st |-> [b EXCEPT !.queued = x], warn |-> FALSE]

\* The single-shot commit storing the list in the queued slot.
CommitSingleshotQueues(st, x) ==
    LET a == vsp1_dl_list_hw_enqueue(st, x)
    IN  [st |-> [a EXCEPT !.queued = x], warn |-> FALSE]

vsp1_dl_list_commit_singleshot(st, x) ==
    LET a == vsp1_dl_list_hw_enqueue(st, x)
    IN  [st |-> [a EXCEPT !.active = x], warn |-> FALSE]

vsp1_dl_list_commit(st, x, internal) ==
    LET a == [FillHeaders(st, x) EXCEPT !.dl[x].internal = internal]
    IN  IF singleshot
        THEN vsp1_dl_list_commit_singleshot(a, x)
        ELSE vsp1_dl_list_commit_continuous(a, x)

\* ------------------------------------------------ frame end interrupt
\* The continuous-mode part of vsp1_dlm_irq_frame_end, after the update
\* pending test.
\* The promotion without the store that clears the queued slot.
IrqPromoteKeepsQueued(st) ==
    LET q == st.queued
        fl == IF q = NULL THEN {}
              ELSE {VSP1_DL_FRAME_END_COMPLETED}
                   \cup (IF st.dl[q].internal THEN {VSP1_DL_FRAME_END_INTERNAL} ELSE {})
        a == IF q = NULL THEN st
             ELSE LET i == [st EXCEPT !.dl[q].internal = FALSE]
                      r == __vsp1_dl_list_put(i, i.active)
                  IN  [r EXCEPT !.active = q]
    IN  [st |-> a, flags |-> fl]

\* The promotion of the queued list that leaves its internal flag set.
IrqPromoteKeepsInternal(st) ==
    LET q == st.queued
        fl == IF q = NULL THEN {}
              ELSE {VSP1_DL_FRAME_END_COMPLETED}
                   \cup (IF st.dl[q].internal THEN {VSP1_DL_FRAME_END_INTERNAL} ELSE {})
        a == IF q = NULL THEN st
             ELSE LET r == __vsp1_dl_list_put(st, st.active)
                  IN  [r EXCEPT !.active = q, !.queued = NULL]
        b == IF a.pending = NULL THEN a
             ELSE LET e == vsp1_dl_list_hw_enqueue(a, a.pending)
                  IN  [e EXCEPT !.queued = a.pending, !.pending = NULL]
    IN  [st |-> b, flags |-> fl]

\* The promotion of the queued list that leaves the pending list where it is.
IrqPromoteLeavesPending(st) ==
    LET q == st.queued
        fl == IF q = NULL THEN {}
              ELSE {VSP1_DL_FRAME_END_COMPLETED}
                   \cup (IF st.dl[q].internal THEN {VSP1_DL_FRAME_END_INTERNAL} ELSE {})
        a == IF q = NULL THEN st
             ELSE LET i == [st EXCEPT !.dl[q].internal = FALSE]
                      r == __vsp1_dl_list_put(i, i.active)
                  IN  [r EXCEPT !.active = q, !.queued = NULL]
    IN  [st |-> a, flags |-> fl]

IrqPromote(st) ==
    LET q == st.queued
        fl == IF q = NULL THEN {}
              ELSE {VSP1_DL_FRAME_END_COMPLETED}
                   \cup (IF st.dl[q].internal THEN {VSP1_DL_FRAME_END_INTERNAL} ELSE {})
        a == IF q = NULL THEN st
             ELSE LET i == [st EXCEPT !.dl[q].internal = FALSE]
                      r == __vsp1_dl_list_put(i, i.active)
                  IN  [r EXCEPT !.active = q, !.queued = NULL]
        b == IF a.pending = NULL THEN a
             ELSE LET e == vsp1_dl_list_hw_enqueue(a, a.pending)
                  IN  [e EXCEPT !.queued = a.pending, !.pending = NULL]
    IN  [st |-> b, flags |-> fl]

\* The handler reporting completion in single-shot mode only when a list was
\* active.
IrqCompletedIfActive(st) ==
    IF singleshot
    THEN LET a == __vsp1_dl_list_put(st, st.active)
         IN  [st |-> [a EXCEPT !.active = NULL],
              flags |-> IF st.active = NULL THEN {} ELSE {VSP1_DL_FRAME_END_COMPLETED}]
    ELSE IF vsp1_dl_list_hw_update_pending(st)
         THEN [st |-> st, flags |-> {}]
         ELSE IrqPromote(st)

\* The handler promoting the queued list without the test of the update bit.
IrqIgnoresUpdate(st) ==
    IF singleshot
    THEN LET a == __vsp1_dl_list_put(st, st.active)
         IN  [st |-> [a EXCEPT !.active = NULL],
              flags |-> {VSP1_DL_FRAME_END_COMPLETED}]
    ELSE IrqPromote(st)

\* The handler reporting the internal flag of the active list in single-shot
\* mode.
IrqSingleshotInternal(st) ==
    IF singleshot
    THEN LET a == __vsp1_dl_list_put(st, st.active)
         IN  [st |-> [a EXCEPT !.active = NULL],
              flags |-> {VSP1_DL_FRAME_END_COMPLETED}
                        \cup (IF st.active # NULL /\ st.dl[st.active].internal
                              THEN {VSP1_DL_FRAME_END_INTERNAL} ELSE {})]
    ELSE IF vsp1_dl_list_hw_update_pending(st)
         THEN [st |-> st, flags |-> {}]
         ELSE IrqPromote(st)

vsp1_dlm_irq_frame_end(st) ==
    IF singleshot
    THEN LET a == __vsp1_dl_list_put(st, st.active)
         IN  [st |-> [a EXCEPT !.active = NULL],
              flags |-> {VSP1_DL_FRAME_END_COMPLETED}]
    ELSE IF vsp1_dl_list_hw_update_pending(st)
         THEN [st |-> st, flags |-> {}]
         ELSE IrqPromote(st)

\* ------------------------------------------------------------ reset
\* vsp1_dlm_reset that releases the active list only.
ResetActiveOnly(st) == __vsp1_dl_list_put(st, st.active)

\* vsp1_dlm_reset under the lock: the three lists are released.
ResetRelease(st) ==
    LET a == __vsp1_dl_list_put(st, st.active)
        b == __vsp1_dl_list_put(a, a.queued)
    IN  __vsp1_dl_list_put(b, b.pending)

\* vsp1_dlm_reset after the unlock: the three slots are cleared.
ResetClear(st) ==
    [st EXCEPT !.active = NULL, !.queued = NULL, !.pending = NULL]

vsp1_dlm_reset(st) == ResetClear(ResetRelease(st))

\* ------------------------------------------------- garbage collector
\* vsp1_dl_fragment_free of every fragment of gc_fragments.
FragmentsFreed(b, fs) ==
    [f \in Frags |-> IF f \in Range(fs) THEN [b[f] EXCEPT !.state = "freed"] ELSE b[f]]

\* ------------------------------------------------------- destruction
\* vsp1_dl_list_free(dl): the body is freed, the fragments of the list are
\* spliced onto gc_fragments and the list is freed; freed counts the calls.
vsp1_dl_list_free(r, x) ==
    [st |-> [r.st EXCEPT !.gc_fragments = @ \o r.st.dl[x].fragments,
                         !.dl[x].fragments = <<>>],
     freed |-> [r.freed EXCEPT ![x] = @ + 1]]

\* list_for_each_entry_safe(dl, next, &dlm->free, list) of vsp1_dlm_destroy:
\* list_del(&dl->list) and vsp1_dl_list_free(dl), then dl = next and next is
\* read from the new dl.
RECURSIVE DestroyLoop(_, _, _, _)
DestroyLoop(r, pos, next, fuel) ==
    IF pos \notin DOMAIN r.freed \/ fuel = 0 THEN r
    ELSE LET a == [r EXCEPT !.st.free = list_del(r.st.free, pos)]
             b == vsp1_dl_list_free(a, pos)
             n == IF next \in DOMAIN b.st.free.next THEN b.st.free.next[next] ELSE next
         IN  DestroyLoop(b, next, n, fuel - 1)

\* vsp1_dlm_destroy(dlm) of a manager: cancel_work_sync, the loop over
\* dlm->free, then vsp1_dlm_fragments_free; frags are the fragments freed.
vsp1_dlm_destroy(st, freed) ==
    LET first == st.free.next[HEAD]
        r == DestroyLoop([st |-> [st EXCEPT !.gc_work = FALSE], freed |-> freed],
                         first,
                         IF first \in DOMAIN st.free.next THEN st.free.next[first]
                                                          ELSE first,
                         Cardinality(DOMAIN freed) + 1)
    IN  [st |-> [r.st EXCEPT !.gc_fragments = <<>>], freed |-> r.freed,
         frags |-> r.st.gc_fragments]

\* The worker is not running gc_work.
GcIdle == [pc |-> "idle", dlb |-> NULL, lock |-> FALSE]

\* --------------------------------------------------------- creation
NoCall == [op |-> "create", dl |-> NULL, flags |-> {}, ret |-> 0, warn |-> FALSE]
Call(op, x, fl, r, w) == [op |-> op, dl |-> x, flags |-> fl, ret |-> r, warn |-> w]

\* The free pool after vsp1_dlm_create: INIT_LIST_HEAD(&dlm->free), then
\* list_add_tail of each allocated list; the lists come zeroed from kzalloc.
RECURSIVE CreateFree(_, _, _)
CreateFree(L, i, prealloc) ==
    IF i > prealloc THEN L
    ELSE CreateFree(list_add_tail(L, i, HEAD), i + 1, prealloc)

\* ALIGN(x, a) of the kernel, a being a power of two.
ALIGN(x, a) == ((x + a - 1) \div a) * a

\* vsp1_dl_body_init without the extra size.
BodyInitNoExtra(addr, num_entries, extra_size) ==
    [dma |-> addr, size |-> num_entries * ENTRY_SIZE]

\* vsp1_dl_body_init(vsp1, dlb, num_entries, extra_size) when dma_alloc_wc
\* succeeds and returns the device address addr: dlb->dma and dlb->size.
vsp1_dl_body_init(addr, num_entries, extra_size) ==
    [dma |-> addr, size |-> num_entries * ENTRY_SIZE + extra_size]

\* vsp1_dl_list_alloc(dlm) when its allocations succeed: zeroed by kzalloc,
\* body0 at the device address addr, with a header after the entries in
\* header mode.  dma is dl->dma, the device address of the header.
vsp1_dl_list_alloc(m, l, addr) ==
    LET header_size == IF m = VSP1_DL_MODE_HEADER THEN ALIGN(HEADER_SIZE, 8) ELSE 0
        body0 == vsp1_dl_body_init(addr, VSP1_DL_NUM_ENTRIES, header_size)
        header_offset == VSP1_DL_NUM_ENTRIES * ENTRY_SIZE
    IN  [num_entries |-> 0, fragments |-> <<>>, has_chain |-> FALSE,
         internal |-> FALSE,
         body0 |-> body0,
         dma |-> IF m = VSP1_DL_MODE_HEADER THEN body0.dma + header_offset ELSE NULL,
         header |-> IF m = VSP1_DL_MODE_HEADER THEN HeaderAlloc(body0.dma)
                                               ELSE NoHeader]

\* Device addresses dma_alloc_wc returns for the bodies of n lists: one
\* slot of DmaSlot bytes after the other.
Slots(n) == [l \in 1..n |-> l * DmaSlot]

\* vsp1_dlm_create(vsp1, index, prealloc), uapi being vsp1->info->uapi, when
\* call number nomem of vsp1_dl_list_alloc returns NULL; every call succeeds
\* when nomem is 0.  The lists allocated before are on dlm->free when the
\* function returns NULL.  at[l] is the device address of the body of list l.
dlm_create(index, uapi, prealloc, nomem, at) ==
    LET m == IF index = 0 /\ ~uapi THEN VSP1_DL_MODE_HEADERLESS
                                   ELSE VSP1_DL_MODE_HEADER
        made == IF nomem \in 1..prealloc THEN nomem - 1 ELSE prealloc
        nodes == {HEAD} \cup (1..made)
    IN  /\ mode = m
        /\ singleshot = uapi
        /\ free = CreateFree(INIT_LIST_HEAD([next |-> [n \in nodes |-> NULL],
                                             prev |-> [n \in nodes |-> NULL]],
                                            HEAD), 1, made)
        /\ active = NULL
        /\ queued = NULL
        /\ pending = NULL
        /\ gc_fragments = <<>>
        /\ gc_work = FALSE
        /\ dl = [l \in 1..made |-> vsp1_dl_list_alloc(m, l, at[l])]
        /\ chain = [next |-> [l \in 1..made |-> NULL],
                    prev |-> [l \in 1..made |-> NULL]]
        /\ hw = [upd |-> FALSE, hdr_addr |-> NULL, body_size |-> 0,
                 cur |-> NULL, irq |-> FALSE]
        /\ owned = {}
        /\ nget = 0
        /\ rst = FALSE
        /\ overtaken = FALSE
        /\ delayed = NULL
        /\ last = NoCall
        /\ gc = GcIdle
        /\ mem = [created |-> nomem \notin 1..prealloc, destroyed |-> FALSE,
                  freed |-> [l \in 1..made |-> 0]]

\* vsp1_dlm_create when no allocation fails.
vsp1_dlm_create(index, uapi, prealloc) ==
    dlm_create(index, uapi, prealloc, 0, Slots(prealloc))

\* The reg and data arguments of a write.
Regs == 1..MaxReg
Datas == 1..MaxData

\* dma_alloc_wc() returns the memory of n entries, zeroed.
Zeroed(n) == [i \in 1..n |-> [addr |-> 0, data |-> 0]]

\* Bodies whose contents are kept: n entries each.
AllEntries(L, F, n) == [dl |-> [x \in L |-> Zeroed(n)], dlb |-> [f \in F |-> Zeroed(n)]]

\* The caller's contract of a write: the body has room for one more entry.
\* A body whose contents are left out takes MaxEntries entries.
Room(b) == b.num_entries < (IF b.entries = <<>> THEN MaxEntries ELSE Len(b.entries))

WriteAtFirst(b, reg, data) ==
    [entries |-> IF b.entries = <<>> THEN b.entries
                 ELSE [b.entries EXCEPT ![1] = [addr |-> reg, data |-> data]],
     num_entries |-> b.num_entries + 1]

\* vsp1_dl_fragment_write(dlb, reg, data) on a body b = [entries, num_entries];
\* entries[i] of the code is b.entries[i + 1].
vsp1_dl_fragment_write(b, reg, data) ==
    [entries |-> IF b.entries = <<>> THEN b.entries
                 ELSE [b.entries EXCEPT ![b.num_entries + 1] = [addr |-> reg, data |-> data]],
     num_entries |-> b.num_entries + 1]

\* Bodies whose contents are left out: only their entry counts are kept.
NoEntries(L, F) == [dl |-> [x \in L |-> <<>>], dlb |-> [f \in F |-> <<>>]]

\* No fragment is allocated yet; at most n will be.
NoFragments(n) == [f \in 1..n |-> [state |-> "unallocated", num_entries |-> 0]]

Init ==
    /\ \E index \in {0, 1}, uapi \in BOOLEAN : vsp1_dlm_create(index, uapi, NumLists)
    /\ dlb = NoFragments(MaxFrags)
    /\ entries = NoEntries(Lists, Frags)

InitFew ==
    /\ \E index \in {0, 1}, uapi \in BOOLEAN : vsp1_dlm_create(index, uapi, FewLists)
    /\ dlb = NoFragments(MaxFrags)
    /\ entries = NoEntries(Lists, Frags)

InitWrite ==
    /\ \E index \in {0, 1}, uapi \in BOOLEAN : vsp1_dlm_create(index, uapi, OneList)
    /\ dlb = NoFragments(MaxFrags)
    /\ entries = AllEntries(Lists, Frags, ManyEntries)

\* nget: the count goes on while no list has come back to the free pool.
Counted(n, st) == IF n >= 0 /\ st.free = free THEN n ELSE -1

\* The fragments a caller holds: allocated, on no list and not taken off
\* gc_fragments by the garbage collector.
Attached ==
    UNION {Range(dl[l].fragments) : l \in Lists} \cup Range(gc_fragments)
    \cup ({gc.dlb} \ {NULL})
CallerFrags == {f \in Frags : dlb[f].state = "allocated" /\ f \notin Attached}

\* ---------------------------------------------------------- actions
\* spin_lock(&dlm->lock) succeeds: the worker does not hold the lock.  Every
\* other holder releases it within its action.
LockFree == ~gc.lock

Get ==
    /\ LockFree
    /\ ~rst
    /\ LET r == vsp1_dl_list_get(Heap)
       IN  /\ SetHeap(r.st)
           /\ owned' = IF r.ret = NULL THEN owned ELSE owned \cup {r.ret}
           /\ nget' = IF nget >= 0 /\ nget <= NumLists THEN nget + 1 ELSE nget
           /\ last' = Call("get", r.ret, {}, 0, FALSE)
    /\ UNCHANGED <<gc, mode, singleshot, delayed, dlb, rst, overtaken, entries, mem>>

\* vsp1_dl_list_put(dl) of a list the caller holds.
Put(x) ==
    /\ LockFree
    /\ ~rst
    /\ x \in owned
    /\ LET st == __vsp1_dl_list_put(Heap, x)
       IN  /\ SetHeap(st)
           /\ nget' = Counted(nget, st)
    /\ owned' = owned \ {x}
    /\ last' = Call("put", x, {}, 0, FALSE)
    /\ UNCHANGED <<gc, mode, singleshot, delayed, dlb, rst, overtaken, entries, mem>>

\* vsp1_dl_list_put(NULL): returns before taking the lock.
PutNull ==
    /\ ~rst
    /\ SetHeap(__vsp1_dl_list_put(Heap, NULL))
    /\ last' = Call("put_null", NULL, {}, 0, FALSE)
    /\ UNCHANGED <<gc, mode, singleshot, delayed, dlb, owned, nget, rst, overtaken, entries, mem>>

\* vsp1_dl_list_write(dl, reg, data)
Write(x) ==
    /\ ~rst
    /\ x \in owned
    /\ LET b == [entries |-> entries.dl[x], num_entries |-> dl[x].num_entries]
       IN  /\ Room(b)
           /\ \E reg \in Regs, data \in Datas :
                 LET w == vsp1_dl_fragment_write(b, reg, data)
                 IN  /\ dl' = [dl EXCEPT ![x].num_entries = w.num_entries]
                     /\ entries' = [entries EXCEPT !.dl[x] = w.entries]
    /\ UNCHANGED <<gc, mode, singleshot, delayed, free, active, queued, pending, gc_fragments,
                   gc_work, chain, dlb, hw, owned, nget, rst, overtaken, last, mem>>

\* vsp1_dl_fragment_alloc(vsp1, num_entries)
FragmentAlloc(f) ==
    /\ ~rst
    /\ dlb[f].state = "unallocated"
    /\ dlb' = [dlb EXCEPT ![f] = [state |-> "allocated", num_entries |-> 0]]
    /\ UNCHANGED <<gc, mode, singleshot, delayed, free, active, queued, pending, gc_fragments,
                   gc_work, dl, chain, hw, owned, nget, rst, overtaken, entries, mem, last>>

\* vsp1_dl_fragment_write(dlb, reg, data) on a fragment the caller holds.
FragmentWrite(f) ==
    /\ ~rst
    /\ f \in CallerFrags
    /\ LET b == [entries |-> entries.dlb[f], num_entries |-> dlb[f].num_entries]
       IN  /\ Room(b)
           /\ \E reg \in Regs, data \in Datas :
                 LET w == vsp1_dl_fragment_write(b, reg, data)
                 IN  /\ dlb' = [dlb EXCEPT ![f].num_entries = w.num_entries]
                     /\ entries' = [entries EXCEPT !.dlb[f] = w.entries]
    /\ UNCHANGED <<gc, mode, singleshot, delayed, free, active, queued, pending, gc_fragments,
                   gc_work, dl, chain, hw, owned, nget, rst, overtaken, last, mem>>

\* vsp1_dl_fragment_free(dlb) of a fragment that was never added to a list.
FragmentFree(f) ==
    /\ ~rst
    /\ f \in CallerFrags
    /\ dlb' = [dlb EXCEPT ![f].state = "freed"]
    /\ UNCHANGED <<gc, mode, singleshot, delayed, free, active, queued, pending, gc_fragments,
                   gc_work, dl, chain, hw, owned, nget, rst, overtaken, entries, mem, last>>

\* vsp1_dl_list_add_fragment(dl, dlb)
vsp1_dl_list_add_fragment(st, x, f) ==
    IF mode # VSP1_DL_MODE_HEADER THEN [st |-> st, ret |-> -EINVAL]
    ELSE [st |-> [st EXCEPT !.dl[x].fragments = Append(@, f)], ret |-> 0]

AddFragment(x, f) ==
    /\ ~rst
    /\ x \in owned
    /\ f \in CallerFrags
    /\ LET r == vsp1_dl_list_add_fragment(Heap, x, f)
       IN  /\ SetHeap(r.st)
           /\ last' = Call("add_fragment", x, {}, r.ret, FALSE)
    /\ UNCHANGED <<gc, mode, singleshot, delayed, dlb, owned, nget, rst, overtaken, entries, mem>>

\* vsp1_dl_list_add_chain setting has_chain before it tests the mode.
AddChainFlagFirst(st, head, x) ==
    LET a == [st EXCEPT !.dl[head].has_chain = TRUE]
    IN  IF mode # VSP1_DL_MODE_HEADER THEN [st |-> a, ret |-> -EINVAL]
        ELSE [st |-> [a EXCEPT !.chain = list_add_tail(a.chain, x, head)], ret |-> 0]

\* vsp1_dl_list_add_chain(head, dl)
vsp1_dl_list_add_chain(st, head, x) ==
    IF mode # VSP1_DL_MODE_HEADER THEN [st |-> st, ret |-> -EINVAL]
    ELSE [st |-> [st EXCEPT !.dl[head].has_chain = TRUE,
                            !.chain = list_add_tail(st.chain, x, head)],
          ret |-> 0]

\* The caller chains a list it holds, and that heads no chain itself, to
\* another list it holds.
AddChain(head, x) ==
    /\ ~rst
    /\ head \in owned
    /\ x \in owned \ {head}
    /\ ~dl[x].has_chain
    /\ LET r == vsp1_dl_list_add_chain(Heap, head, x)
       IN  /\ SetHeap(r.st)
           /\ owned' = IF r.ret = 0 THEN owned \ {x} ELSE owned
           /\ last' = Call("add_chain", head, {}, r.ret, FALSE)
    /\ UNCHANGED <<gc, mode, singleshot, delayed, dlb, nget, rst, overtaken, entries, mem>>

\* vsp1_dl_list_commit(dl, internal).  In single-shot mode the caller
\* guarantees that the hardware is idle.
Commit(x, internal) ==
    /\ LockFree
    /\ x \in owned
    /\ singleshot => (active = NULL /\ ~hw.upd)
    /\ LET r == vsp1_dl_list_commit(Heap, x, internal)
       IN  /\ SetHeap(r.st)
           /\ nget' = Counted(nget, r.st)
           /\ last' = Call("commit", x, {}, 0, r.warn)
    /\ owned' = owned \ {x}
    /\ overtaken' = IF singleshot THEN overtaken
                    ELSE IF vsp1_dl_list_hw_update_pending(Heap) THEN FALSE
                    ELSE pending # NULL
    /\ UNCHANGED <<gc, mode, singleshot, delayed, dlb, rst, entries, mem>>

\* The frame boundary in the VSP1: a list written to the DL registers is
\* latched and its update bit cleared, and the frame end interrupt is raised.
\* In continuous mode the latched list is processed again at every frame; in
\* single-shot mode the hardware runs once per start.
HwFrame ==
    /\ hw.upd \/ (~singleshot /\ hw.cur # NULL)
    /\ hw' = [hw EXCEPT !.upd = FALSE,
                        !.cur = IF hw.upd THEN hw.hdr_addr ELSE @,
                        !.irq = TRUE]
    /\ UNCHANGED <<gc, mode, singleshot, delayed, free, active, queued, pending, gc_fragments,
                   gc_work, dl, chain, dlb, owned, nget, rst, overtaken, entries, mem, last>>

\* The interrupt handler runs once for a raised frame end interrupt.
IrqFrameEnd ==
    /\ LockFree
    /\ hw.irq
    /\ LET r == vsp1_dlm_irq_frame_end(Heap)
           st == [r.st EXCEPT !.hw.irq = FALSE]
       IN  /\ SetHeap(st)
           /\ nget' = Counted(nget, st)
           /\ last' = Call("irq", NULL, r.flags, 0, FALSE)
    /\ delayed' = IF ~singleshot /\ vsp1_dl_list_hw_update_pending(Heap) THEN queued ELSE NULL
    /\ overtaken' = (overtaken /\ pending' # NULL)
    /\ UNCHANGED <<gc, mode, singleshot, dlb, owned, rst, entries, mem>>

\* vsp1_dlm_reset(dlm), called once the pipeline has been stopped: the
\* hardware no longer holds a list.
HwStopped(st) == [st EXCEPT !.hw.upd = FALSE, !.hw.cur = NULL]

Reset ==
    /\ LockFree
    /\ ~rst
    /\ LET st == vsp1_dlm_reset(HwStopped(Heap))
       IN  /\ SetHeap(st)
           /\ nget' = Counted(nget, st)
    /\ last' = Call("reset", active, {}, 0, FALSE)
    /\ delayed' = NULL
    /\ overtaken' = FALSE
    /\ UNCHANGED <<gc, mode, singleshot, dlb, owned, rst, entries, mem>>

\* vsp1_dlm_garbage_collect: the scheduled work frees every fragment of
\* gc_fragments.
GarbageCollect ==
    /\ gc_work
    /\ dlb' = FragmentsFreed(dlb, gc_fragments)
    /\ gc_fragments' = <<>>
    /\ gc_work' = FALSE
    /\ UNCHANGED <<gc, mode, singleshot, delayed, free, active, queued, pending, dl, chain,
                   hw, owned, nget, rst, overtaken, entries, mem, last>>

\* The worker takes gc_work off the queue (the pending bit is cleared before
\* the work function runs) and calls vsp1_dlm_garbage_collect.  A work item
\* never runs twice at once.
GcStart ==
    /\ gc_work
    /\ gc.pc = "idle"
    /\ gc_work' = FALSE
    /\ gc' = [gc EXCEPT !.pc = "lock"]
    /\ UNCHANGED <<mode, singleshot, delayed, free, active, queued, pending,
                   gc_fragments, dl, chain, dlb, hw, owned, nget, rst, overtaken, entries, mem, last>>

\* vsp1_dlm_fragments_free: spin_lock_irqsave, before the loop and after
\* each vsp1_dl_fragment_free.
GcLock ==
    /\ gc.pc = "lock"
    /\ LockFree
    /\ gc' = [gc EXCEPT !.pc = "test", !.lock = TRUE]
    /\ UNCHANGED <<mode, singleshot, delayed, free, active, queued, pending,
                   gc_fragments, gc_work, dl, chain, dlb, hw, owned, nget, rst, overtaken, entries, mem, last>>

\* The loop of vsp1_dlm_fragments_free dropping the lock only after
\* vsp1_dl_fragment_free.
FragmentsFreeKeepsLock(g, fs) ==
    IF fs = <<>>
    THEN [gc |-> GcIdle, gc_fragments |-> fs]
    ELSE [gc |-> [pc |-> "free", dlb |-> Head(fs), lock |-> TRUE],
          gc_fragments |-> Tail(fs)]

\* The loop test under the lock: with gc_fragments empty the lock is dropped
\* and the work is done; otherwise the first fragment is taken off the list
\* (list_first_entry, list_del) and the lock is dropped before the fragment
\* is freed.
FragmentsFreeTake(g, fs) ==
    IF fs = <<>>
    THEN [gc |-> GcIdle, gc_fragments |-> fs]
    ELSE [gc |-> [pc |-> "free", dlb |-> Head(fs), lock |-> FALSE],
          gc_fragments |-> Tail(fs)]

GcTake ==
    /\ gc.pc = "test"
    /\ LET r == FragmentsFreeTake(gc, gc_fragments)
       IN  /\ gc' = r.gc
           /\ gc_fragments' = r.gc_fragments
    /\ UNCHANGED <<mode, singleshot, delayed, free, active, queued, pending,
                   gc_work, dl, chain, dlb, hw, owned, nget, rst, overtaken, entries, mem, last>>

\* vsp1_dl_fragment_free(dlb) of the fragment taken off gc_fragments.
GcFree ==
    /\ gc.pc = "free"
    /\ dlb' = [dlb EXCEPT ![gc.dlb].state = "freed"]
    /\ gc' = [gc EXCEPT !.pc = "lock", !.dlb = NULL]
    /\ UNCHANGED <<mode, singleshot, delayed, free, active, queued, pending,
                   gc_fragments, gc_work, dl, chain, hw, owned, nget, rst, overtaken, entries, mem, last>>

\* vsp1_dl_list_put(dl) of a list that is in the free pool already: a caller
\* that releases the same list twice.
PutAgain(x) ==
    /\ LockFree
    /\ ~rst
    /\ x \in Range(FreeSeq)
    /\ LET st == __vsp1_dl_list_put(Heap, x)
       IN  /\ SetHeap(st)
           /\ nget' = Counted(nget, st)
    /\ last' = Call("put_again", x, {}, 0, FALSE)
    /\ UNCHANGED <<gc, mode, singleshot, delayed, dlb, owned, rst, overtaken, entries, mem>>

\* vsp1_dlm_reset in two steps: the releases under the lock, then, after the
\* unlock, the stores that clear the slots.
ResetBegin ==
    /\ LockFree
    /\ ~rst
    /\ LET st == ResetRelease(HwStopped(Heap))
       IN  /\ SetHeap(st)
           /\ nget' = Counted(nget, st)
    /\ rst' = TRUE
    /\ last' = Call("reset_release", NULL, {}, 0, FALSE)
    /\ delayed' = NULL
    /\ UNCHANGED <<gc, mode, singleshot, dlb, owned, overtaken, entries, mem>>

ResetEnd ==
    /\ rst
    /\ SetHeap(ResetClear(Heap))
    /\ rst' = FALSE
    /\ last' = Call("reset", NULL, {}, 0, FALSE)
    /\ overtaken' = FALSE
    /\ UNCHANGED <<gc, mode, singleshot, delayed, dlb, owned, nget, entries, mem>>

\* The calls every caller makes, with the hardware and its interrupt.
Pipeline ==
    \/ Get
    \/ \E x \in Lists : Put(x)
    \/ HwFrame
    \/ IrqFrameEnd

\* Callers that fill bodies, attach fragments and chain lists.
Bodies ==
    \/ \E x \in Lists : Write(x)
    \/ \E head \in Lists, x \in Lists : AddChain(head, x)
    \/ \E f \in Frags : FragmentAlloc(f)
    \/ \E f \in Frags : FragmentWrite(f)
    \/ \E f \in Frags : FragmentFree(f)
    \/ \E x \in Lists, f \in Frags : AddFragment(x, f)
    \/ GarbageCollect

\* vsp1_dlm_destroy(dlm) with what vsp1_dlm_create returned: nothing is done
\* for NULL.  cancel_work_sync waits for the worker.
Destroy ==
    /\ ~mem.destroyed
    /\ ~rst
    /\ gc = GcIdle
    /\ last' = Call("destroy", NULL, {}, 0, FALSE)
    /\ IF mem.created
       THEN LET r == vsp1_dlm_destroy(Heap, mem.freed)
            IN  /\ SetHeap(r.st)
                /\ dlb' = FragmentsFreed(dlb, r.frags)
                /\ mem' = [mem EXCEPT !.destroyed = TRUE, !.freed = r.freed]
                /\ nget' = Counted(nget, r.st)
       ELSE UNCHANGED <<free, active, queued, pending, gc_fragments, gc_work, dl, chain,
                        hw, dlb, mem, nget>>
    /\ UNCHANGED <<gc, mode, singleshot, delayed, owned, rst, overtaken, entries>>

\* The caller holds a manager: vsp1_dlm_create returned it and
\* vsp1_dlm_destroy was not called on it.
Live == mem.created /\ ~mem.destroyed

\* A manager of NumLists display lists committed with and without internal
\* notification, bodies left empty and lists not chained.
Next ==
    \/ Pipeline
    \/ \E x \in Lists, internal \in BOOLEAN : Commit(x, internal)
    \/ Reset

Spec == Init /\ [][Next]_vars

\* A manager of FewLists display lists with bodies, fragments and chains,
\* committed without internal notification.
NextBody ==
    \/ Pipeline
    \/ Bodies
    \/ \E x \in Lists : Commit(x, FALSE)
    \/ Reset

SpecBody == InitFew /\ [][NextBody]_vars

\* vsp1_dlm_reset interleaved, at its unlock, with the interrupt handler and
\* with commits from another context.
NextRace ==
    \/ Get
    \/ \E x \in Lists : Put(x)
    \/ \E x \in Lists : Commit(x, FALSE)
    \/ HwFrame
    \/ IrqFrameEnd
    \/ ResetBegin
    \/ ResetEnd

SpecRace == Init /\ [][NextRace]_vars

\* Callers that also release NULL and lists they have released before.
NextPut ==
    \/ Get
    \/ \E x \in Lists : Put(x)
    \/ \E x \in Lists : Write(x)
    \/ PutNull
    \/ \E x \in Lists : PutAgain(x)

SpecPut == Init /\ [][NextPut]_vars

\* A manager of FewLists display lists whose fragments the worker collects
\* step by step, between the calls of callers and the interrupt handler.
InitGC ==
    /\ \E index \in {0, 1}, uapi \in BOOLEAN : vsp1_dlm_create(index, uapi, FewLists)
    /\ dlb = NoFragments(ManyFrags)
    /\ entries = NoEntries(Lists, Frags)

Worker ==
    \/ GcStart
    \/ GcLock
    \/ GcTake
    \/ GcFree

NextGC ==
    \/ Get
    \/ \E x \in Lists : Put(x)
    \/ \E f \in Frags : FragmentAlloc(f)
    \/ \E x \in Lists, f \in Frags : AddFragment(x, f)
    \/ \E x \in Lists : Commit(x, FALSE)
    \/ HwFrame
    \/ IrqFrameEnd
    \/ Worker

\* The workqueue runs scheduled work, and the lock is held for the length of
\* one call only: every step of the worker that stays possible is taken.
SpecGC == InitGC /\ [][NextGC]_vars

\* Callers that release lists with fragments while the worker runs.  The
\* workqueue runs scheduled work, and the lock is held for the length of one
\* call only: every step of the worker that stays possible is taken.
NextDrain ==
    \/ Get
    \/ \E x \in Lists : Put(x)
    \/ \E f \in Frags : FragmentAlloc(f)
    \/ \E x \in Lists, f \in Frags : AddFragment(x, f)
    \/ Worker

\* A manager of NumLists display lists that callers fill, give fragments,
\* chain and commit, with no frame in between.
InitHeader ==
    /\ \E index \in {0, 1}, uapi \in BOOLEAN : vsp1_dlm_create(index, uapi, NumLists)
    /\ dlb = NoFragments(ManyFrags)
    /\ entries = NoEntries(Lists, Frags)

NextHeader ==
    \/ Get
    \/ \E x \in Lists : Write(x)
    \/ \E f \in Frags : FragmentAlloc(f)
    \/ \E f \in Frags : FragmentWrite(f)
    \/ \E x \in Lists, f \in Frags : AddFragment(x, f)
    \/ \E head \in Lists, x \in Lists : AddChain(head, x)
    \/ \E x \in Lists : Commit(x, FALSE)

SpecHeader == InitHeader /\ [][NextHeader]_vars

\* A manager of one display list whose bodies' contents are kept:
\* callers write lists and fragments, commit and release lists, frames end
\* and the manager is reset.
NextWrite ==
    \/ Get
    \/ \E x \in Lists : Put(x)
    \/ \E x \in Lists : Write(x)
    \/ \E f \in Frags : FragmentAlloc(f)
    \/ \E f \in Frags : FragmentWrite(f)
    \/ \E x \in Lists, f \in Frags : AddFragment(x, f)
    \/ \E x \in Lists : Commit(x, FALSE)
    \/ HwFrame
    \/ IrqFrameEnd
    \/ Reset

SpecWrite == InitWrite /\ [][NextWrite]_vars

\* vsp1_dlm_create of FewLists display lists, any one of whose allocations
\* may fail, the use of the manager it returns and vsp1_dlm_destroy.
InitMem ==
    /\ \E index \in {0, 1}, uapi \in BOOLEAN, nomem \in 0..FewLists :
            dlm_create(index, uapi, FewLists, nomem, Slots(FewLists))
    /\ dlb = NoFragments(MaxFrags)
    /\ entries = NoEntries(Lists, Frags)

NextMem ==
    \/ Live /\ Get
    \/ \E x \in Lists : Live /\ Put(x)
    \/ \E f \in Frags : Live /\ FragmentAlloc(f)
    \/ \E x \in Lists, f \in Frags : Live /\ AddFragment(x, f)
    \/ \E head \in Lists, x \in Lists : Live /\ AddChain(head, x)
    \/ \E x \in Lists : Live /\ Commit(x, FALSE)
    \/ Live /\ HwFrame
    \/ Live /\ IrqFrameEnd
    \/ Destroy

SpecMem == InitMem /\ [][NextMem]_vars

\* The ways dma_alloc_wc can place the bodies of n lists in n slots.
Placements(n) ==
    {at \in [1..n -> {k * DmaSlot : k \in 1..n}] :
        \A a, b \in 1..n : a # b => at[a] # at[b]}

\* A manager of FewLists display lists whose bodies dma_alloc_wc placed in
\* any order, and whose lists are written, given a fragment, committed, run
\* and recycled.
InitLayout ==
    /\ \E index \in {0, 1}, uapi \in BOOLEAN, at \in Placements(FewLists) :
            dlm_create(index, uapi, FewLists, 0, at)
    /\ dlb = NoFragments(MaxFrags)
    /\ entries = NoEntries(Lists, Frags)

NextLayout ==
    \/ Get
    \/ \E x \in Lists : Put(x)
    \/ \E x \in Lists : Write(x)
    \/ \E f \in Frags : FragmentAlloc(f)
    \/ \E f \in Frags : FragmentWrite(f)
    \/ \E x \in Lists, f \in Frags : AddFragment(x, f)
    \/ \E x \in Lists : Commit(x, FALSE)
    \/ HwFrame
    \/ IrqFrameEnd
    \/ Reset

SpecLayout == InitLayout /\ [][NextLayout]_vars

\* A manager of one list and a caller that has as many fragments as the
\* header has entries, and allocates, writes and adds them one at a time, in
\* the order of their addresses.
FullFrags == HEADER_LISTS

InitFull ==
    /\ \E index \in {0, 1}, uapi \in BOOLEAN : vsp1_dlm_create(index, uapi, OneList)
    /\ dlb = NoFragments(FullFrags)
    /\ entries = NoEntries(Lists, Frags)

Lowest(S) == CHOOSE f \in S : \A g \in S : f <= g
Unallocated == {f \in Frags : dlb[f].state = "unallocated"}

NextFull ==
    \/ Get
    \/ \E f \in Unallocated :
          CallerFrags = {} /\ f = Lowest(Unallocated) /\ FragmentAlloc(f)
    \/ \E f \in CallerFrags : f = Lowest(CallerFrags) /\ FragmentWrite(f)
    \/ \E x \in Lists, f \in CallerFrags :
          f = Lowest(CallerFrags) /\ AddFragment(x, f)
    \/ \E x \in Lists : Commit(x, FALSE)

SpecFull == InitFull /\ [][NextFull]_vars

\* The pipeline running without a reset: frames keep coming and every
\* raised interrupt is served.
NextLive ==
    \/ Get
    \/ \E x \in Lists : Put(x)
    \/ \E x \in Lists, internal \in BOOLEAN : Commit(x, internal)
    \/ HwFrame
    \/ IrqFrameEnd

SpecLive ==
    /\ Init
    /\ [][NextLive]_vars
    /\ WF_vars(HwFrame)
    /\ WF_vars(IrqFrameEnd)

\* Callers that chain lists with fragments and release them.
NextChain ==
    \/ Get
    \/ \E x \in Lists : Put(x)
    \/ \E x \in Lists : Write(x)
    \/ \E f \in Frags : FragmentAlloc(f)
    \/ \E x \in Lists, f \in Frags : AddFragment(x, f)
    \/ \E head \in Lists, x \in Lists : AddChain(head, x)

SpecChain == InitHeader /\ [][NextChain]_vars

SpecDrain ==
    /\ InitGC
    /\ [][NextDrain]_vars
    /\ WF_vars(GcStart)
    /\ WF_vars(GcLock)
    /\ WF_vars(GcTake)
    /\ WF_vars(GcFree)

\* ------------------------------------------------------------ claims
Committing(x) == \E internal \in BOOLEAN : Commit(x, internal)

\* C1: while no list has come back to the free pool since vsp1_dlm_create,
\* the k-th vsp1_dl_list_get (k <= NumLists) returns the k-th preallocated
\* list, which is not NULL and which no earlier call returned, and the call
\* after the NumLists-th returns NULL and leaves the free pool and the three
\* slots as they were.
C1_GetUntilExhausted ==
    [][Get =>
        /\ nget \in 0..(NumLists - 1) =>
              /\ last'.dl = nget + 1
              /\ last'.dl \notin owned
              /\ owned' = owned \cup {last'.dl}
        /\ nget >= NumLists =>
              /\ last'.dl = NULL
              /\ UNCHANGED <<free, active, queued, pending, owned, mem>>]_vars

\* The call after the NumLists-th has returned NULL.
C1_Witness ==
    /\ nget = NumLists + 1
    /\ last.op = "get"
    /\ last.dl = NULL

\* C2: in continuous mode a commit of A while Q is queued and the hardware
\* has not taken Q yet makes A the pending list and leaves the queued list
\* and the hardware registers alone; a frame end interrupt that finds Q
\* taken, with A pending, makes Q the active list, writes A to the hardware
\* and makes A the queued list, with nothing pending.
C2_PendingThenQueued ==
    [][/\ \A x \in Lists :
            (Committing(x) /\ ~singleshot /\ queued # NULL /\ hw.upd) =>
                (pending' = x /\ queued' = queued /\ active' = active /\ hw' = hw)
       /\ (IrqFrameEnd /\ ~singleshot /\ queued # NULL /\ pending # NULL /\ ~hw.upd) =>
                /\ active' = queued
                /\ queued' = pending
                /\ pending' = NULL
                /\ hw'.hdr_addr = pending
                /\ hw'.upd]_vars

\* An interrupt has promoted the queued list and queued the pending one.
C2_Witness ==
    /\ ~singleshot
    /\ last.op = "irq"
    /\ VSP1_DL_FRAME_END_COMPLETED \in last.flags
    /\ active # NULL
    /\ queued # NULL
    /\ pending = NULL
    /\ hw.hdr_addr = queued
    /\ hw.upd

\* C3: in continuous mode no commit returns to the free pool the list that
\* is written to the hardware and whose completion no interrupt has reported
\* yet (the queued list), and every list of the free pool has no fragment
\* and no chain.
C3_CommitKeepsQueued ==
    [][\A x \in Lists :
          (Committing(x) /\ ~singleshot) =>
              /\ queued # NULL => queued \notin Range(FreeSeq')
              /\ \A l \in Range(FreeSeq') :
                    dl'[l].fragments = <<>> /\ ~dl'[l].has_chain]_vars

\* The places a display list can be in: how many times it is in the free
\* pool, the slots that reference it, the chains it is a member of, a caller.
Count(b) == IF b THEN 1 ELSE 0
InFree(l) == Cardinality({i \in DOMAIN FreeSeq : FreeSeq[i] = l})
Heads(l) == {h \in Lists \ {l} : dl[h].has_chain /\ l \in Range(ChainSeq(h))}
Places(l) ==
    InFree(l) + Count(active = l) + Count(queued = l) + Count(pending = l)
    + Cardinality(Heads(l)) + Count(l \in owned)

\* C4: every display list is in exactly one place: once in the free pool, in
\* the active, the queued or the pending slot, in the chain of one head
\* list, or held by a caller.
C4_ExactlyOnePlace == \A l \in Lists : Places(l) = 1

\* A head list with a list chained to it and a fragment has been committed
\* and made active by the interrupt.
C4_Witness ==
    /\ last.op = "irq"
    /\ active # NULL
    /\ dl[active].has_chain
    /\ dl[active].fragments # <<>>
    /\ \E l \in Lists : active \in Heads(l)

\* C5: no slot references a list that is in the free pool, at any point
\* where the lock is free and the interrupt handler or a commit can run.
C5_SlotsOutsideFreePool ==
    \A l \in Range(FreeSeq) : l # active /\ l # queued /\ l # pending

\* C6 as claimed: releasing NULL, or a list that is in the free pool already,
\* changes nothing.
C6_PutTwiceNoop ==
    [][(PutNull \/ \E x \in Lists : PutAgain(x)) =>
          UNCHANGED <<free, active, queued, pending, gc_fragments, gc_work,
                      dl, chain, dlb, hw, owned, mem>>]_vars

\* C6 as amended: releasing NULL changes nothing.
C6_PutNullNoop ==
    [][PutNull =>
          UNCHANGED <<free, active, queued, pending, gc_fragments, gc_work,
                      dl, chain, dlb, hw, owned, mem>>]_vars

\* NULL has been released while lists were out of the pool.
C6_Witness ==
    /\ last.op = "put_null"
    /\ owned # {}

\* C7: the list vsp1_dl_list_get returns has no entry in its body, no
\* fragment, no chain flag and an empty chain node.
C7_GetReturnsCleanList ==
    [][(Get /\ last'.dl # NULL) =>
          LET x == last'.dl
          IN  /\ dl'[x].num_entries = 0
              /\ dl'[x].fragments = <<>>
              /\ ~dl'[x].has_chain
              /\ list_empty(chain', x)]_vars

\* A list is handed out again that was chained before it was released, while
\* the fragments moved off a released list wait for the garbage collector.
C7_Witness ==
    /\ last.op = "get"
    /\ last.dl # NULL
    /\ \E l \in Lists \ {last.dl} : chain.next[l] = last.dl \/ chain.prev[l] = last.dl
    /\ gc_fragments # <<>>
    /\ gc_work

\* C8: in single-shot mode a commit writes the list to the hardware and
\* makes it the active list; the frame end interrupt always reports
\* COMPLETED, leaves no active list and puts the list that was active at the
\* tail of the free pool.
C8_SingleShot ==
    [][/\ \A x \in Lists :
            (Committing(x) /\ singleshot) =>
                (active' = x /\ hw'.hdr_addr = x /\ hw'.upd)
       /\ (IrqFrameEnd /\ singleshot) =>
            /\ last'.flags = {VSP1_DL_FRAME_END_COMPLETED}
            /\ active' = NULL
            /\ active # NULL =>
                  /\ FreeSeq' # <<>>
                  /\ FreeSeq'[Len(FreeSeq')] = active
                  /\ InFree(active) = 0
            /\ active = NULL => free' = free]_vars

\* The interrupt has completed the committed list.
C8_Witness ==
    /\ singleshot
    /\ last.op = "irq"
    /\ last.flags = {VSP1_DL_FRAME_END_COMPLETED}
    /\ active = NULL
    /\ hw.hdr_addr # NULL
    /\ hw.hdr_addr \in Range(FreeSeq)

\* C9: in continuous mode, after an interrupt that put off the completion of
\* the queued list because the hardware had not taken it, the next interrupt
\* reports COMPLETED and makes that list the active list.
C9_CompletedOneFrameLate ==
    [][(IrqFrameEnd /\ ~singleshot /\ delayed # NULL) =>
          /\ VSP1_DL_FRAME_END_COMPLETED \in last'.flags
          /\ active' = delayed]_vars

\* C10: in header mode every frame end interrupt reports COMPLETED.
C10_HeaderModeCompleted ==
    (last.op = "irq" /\ mode = VSP1_DL_MODE_HEADER) =>
        VSP1_DL_FRAME_END_COMPLETED \in last.flags

\* C11: a fragment is freed only by the worker, in the step between the
\* unlock of the drain loop and its next lock, with the lock not held; put,
\* commit and the interrupt handler free nothing: the fragments of the lists
\* they release go to gc_fragments and the released lists keep none.
C11_FreedOutsideLock ==
    [][/\ \A f \in Frags :
            (dlb[f].state # "freed" /\ dlb'[f].state = "freed") =>
                (gc.pc = "free" /\ gc.dlb = f /\ ~gc.lock)
       /\ (IrqFrameEnd \/ \E x \in Lists : Put(x) \/ Commit(x, FALSE)) =>
            /\ dlb' = dlb
            /\ Attached' = Attached
            /\ \A l \in Range(FreeSeq') : dl'[l].fragments = <<>>]_vars

\* The worker has freed one fragment and goes round the loop for another
\* one, which the interrupt handler put on gc_fragments.
C11_Witness ==
    /\ gc.pc = "lock"
    /\ \E f \in Frags : dlb[f].state = "freed"
    /\ gc_fragments # <<>>
    /\ last.op = "irq"

\* The list x, or a list chained to it, has a fragment.
OwnsFragment(x) ==
    \/ dl[x].fragments # <<>>
    \/ dl[x].has_chain /\ \E c \in Range(ChainSeq(x)) : dl[c].fragments # <<>>

\* C12: a put that releases a list with a fragment schedules gc_work, a put
\* of a list without fragments leaves gc_work as it is; every fragment on
\* gc_fragments is eventually freed and gc_fragments eventually is empty,
\* whatever the callers put while the worker runs.
C12_FragmentsCollected ==
    /\ [][\A x \in Lists :
            Put(x) => IF OwnsFragment(x) THEN gc_work' ELSE gc_work' = gc_work]_vars
    /\ \A f \in 1..ManyFrags :
            (f \in Range(gc_fragments)) ~> (dlb[f].state = "freed")
    /\ (gc_fragments # <<>>) ~> (gc_fragments = <<>>)

\* A put has added a fragment and scheduled the work again while the worker
\* was in its loop, after it freed another fragment.
C12_Witness ==
    /\ last.op = "put"
    /\ gc.pc # "idle"
    /\ gc_work
    /\ gc_fragments # <<>>
    /\ \E f \in Frags : dlb[f].state = "freed"

\* C13: in headerless mode vsp1_dl_list_add_fragment and
\* vsp1_dl_list_add_chain return -EINVAL and change nothing, the fragment and
\* the list staying with the caller; in header mode they return 0 and the
\* fragment is the last of the list's fragments, the list the last of the
\* head's chain.
C13_HeaderModeOnly ==
    [][/\ \A x \in Lists, f \in Frags :
            AddFragment(x, f) =>
                IF mode = VSP1_DL_MODE_HEADERLESS
                THEN /\ last'.ret = -EINVAL
                     /\ UNCHANGED <<dl, chain, free, gc_fragments, gc_work, dlb, owned, mem>>
                     /\ f \in CallerFrags'
                ELSE /\ last'.ret = 0
                     /\ dl'[x].fragments = Append(dl[x].fragments, f)
                     /\ f \notin CallerFrags'
       /\ \A head \in Lists, x \in Lists :
            AddChain(head, x) =>
                IF mode = VSP1_DL_MODE_HEADERLESS
                THEN /\ last'.ret = -EINVAL
                     /\ UNCHANGED <<dl, chain, free, gc_fragments, gc_work, dlb, owned, mem>>
                ELSE /\ last'.ret = 0
                     /\ dl'[head].has_chain
                     /\ ChainSeq(head)' = Append(ChainSeq(head), x)
                     /\ x \notin owned']_vars

\* A headerless manager has refused to chain a list, the caller holding a
\* fragment as well.
C13_Witness ==
    /\ mode = VSP1_DL_MODE_HEADERLESS
    /\ last.op = "add_chain"
    /\ last.ret = -EINVAL
    /\ Cardinality(owned) = 2
    /\ CallerFrags # {}

\* The list x and the lists chained to it.
Chained(x) == {x} \cup Range(ChainSeq(x))

\* C14: in header mode a commit leaves, in the header of the committed list
\* and of every list chained to it, entry 0 with the byte length of the
\* body (entries times ENTRY_SIZE), entry i with the address and the byte
\* length of the i-th fragment in the order of attachment, and the number
\* of fragments as num_lists.
C14_HeaderEntries ==
    [][\A x \in Lists :
          (Commit(x, FALSE) /\ mode = VSP1_DL_MODE_HEADER) =>
              \A l \in Chained(x) :
                  LET fs == dl[l].fragments
                      h == dl'[l].header
                  IN  /\ h.num_lists = Len(fs)
                      /\ h.lists[1] = [num_bytes |-> dl[l].num_entries * ENTRY_SIZE,
                                       addr |-> dl[l].body0.dma]
                      /\ \A i \in 1..Len(fs) :
                            h.lists[i + 1] =
                                [num_bytes |-> dlb[fs[i]].num_entries * ENTRY_SIZE,
                                 addr |-> fs[i]]]_vars

\* A list with one entry and two fragments, the second allocated attached
\* first and only one of them written, has been committed.
C14_Witness ==
    /\ mode = VSP1_DL_MODE_HEADER
    /\ last.op = "commit"
    /\ dl[last.dl].num_entries = 1
    /\ dl[last.dl].fragments = <<2, 1>>
    /\ dlb[2].num_entries = 1
    /\ dlb[1].num_entries = 0
    /\ dl[last.dl].header.num_lists = 2

\* C15: in header mode, after the commit of a head list with the chain
\* C1..Cn, the next_header of every element but the last is the header
\* address of the element after it (the head's is C1's), and in continuous
\* mode the next_header of the last element (the head when n = 0) is its own
\* header address.
C15_ForwardLinks ==
    [][\A x \in Lists :
          (Commit(x, FALSE) /\ mode = VSP1_DL_MODE_HEADER) =>
              LET seq == <<x>> \o ChainSeq(x)
              IN  \A i \in 1..Len(seq) :
                      IF i < Len(seq)
                      THEN dl'[seq[i]].header.next_header = seq[i + 1]
                      ELSE ~singleshot => dl'[seq[i]].header.next_header = seq[i]]_vars

\* A head with a chain of two lists has been committed in continuous mode.
C15_Witness ==
    /\ mode = VSP1_DL_MODE_HEADER
    /\ ~singleshot
    /\ last.op = "commit"
    /\ Len(ChainSeq(last.dl)) = 2
    /\ dl[last.dl].has_chain

\* The lists a put of x releases, in the order of their release: the lists
\* chained to x, then x.
Released(x) == (IF dl[x].has_chain THEN ChainSeq(x) ELSE <<>>) \o <<x>>

\* C16: a put of a head list puts the lists chained to it and the head once
\* each at the tail of the free pool, clears the head's has_chain, leaves
\* each of them with no entry and no fragment, and moves their fragments,
\* and nothing else, to gc_fragments.
C16_PutReleasesChain ==
    [][\A x \in Lists :
          Put(x) =>
              /\ FreeSeq' = FreeSeq \o Released(x)
              /\ ~dl'[x].has_chain
              /\ \A l \in Range(Released(x)) :
                    /\ dl'[l].num_entries = 0
                    /\ dl'[l].fragments = <<>>
              /\ Range(gc_fragments') =
                    Range(gc_fragments)
                    \cup UNION {Range(dl[l].fragments) : l \in Range(Released(x))}
              /\ Len(gc_fragments') = Cardinality(Range(gc_fragments'))]_vars

\* A head with entries, a chain of two lists and fragments on the head and
\* on a chained list has been released.
C16_Witness ==
    /\ last.op = "put"
    /\ Len(ChainSeq(last.dl)) = 2
    /\ Len(FreeSeq) = NumLists
    /\ FreeSeq[NumLists] = last.dl
    /\ Len(gc_fragments) = ManyFrags

\* The lists of the slots with the lists chained to them.
SlotLists == {active, queued, pending} \ {NULL}
SlotMembers == UNION {Range(Released(l)) : l \in SlotLists}

\* C17: a reset that runs as a whole leaves the three slots empty; the lists
\* the slots held and the lists chained to them are once in the free pool
\* with no entry, and each of their fragments is on gc_fragments or freed.
C17_ResetReleasesAll ==
    [][Reset =>
          /\ active' = NULL
          /\ queued' = NULL
          /\ pending' = NULL
          /\ \A l \in SlotMembers :
                /\ InFree(l)' = 1
                /\ dl'[l].num_entries = 0
                /\ \A f \in Range(dl[l].fragments) :
                      \/ f \in Range(gc_fragments')
                      \/ dlb'[f].state = "freed"]_vars

\* A reset has released an active head list with a list chained to it,
\* while a fragment waits for the garbage collector.
C17_Witness ==
    /\ last.op = "reset"
    /\ last.dl # NULL
    /\ Len(ChainSeq(last.dl)) = 1
    /\ Len(FreeSeq) = FewLists
    /\ gc_fragments # <<>>

\* The number of lists on the chain of a head list.
InChains == Cardinality({l \in Lists : Heads(l) # {}})

\* C18: the entries of the free pool, the occupied slots, the lists chained
\* to a head and the lists callers hold add up to the number of lists the
\* manager was created with.
C18_Conservation ==
    Len(FreeSeq) + Count(active # NULL) + Count(queued # NULL)
    + Count(pending # NULL) + InChains + Cardinality(owned)
        = Cardinality(Lists)

\* Every list of the manager is accounted for by a slot and a chain: a head
\* list with a list chained to it has been committed and is queued.
C18_Witness ==
    /\ last.op = "commit"
    /\ ~singleshot
    /\ queued = last.dl
    /\ dl[queued].has_chain
    /\ InChains = 1
    /\ FreeSeq = <<>>
    /\ owned = {}

\* C19: the frame end handler of a single-shot manager never reports the
\* internal flag, whatever the internal argument of the commits was; a
\* handler that reports it belongs to a continuous manager.
C19_InternalContinuousOnly ==
    [][IrqFrameEnd =>
          /\ singleshot => VSP1_DL_FRAME_END_INTERNAL \notin last'.flags
          /\ VSP1_DL_FRAME_END_INTERNAL \in last'.flags => ~singleshot]_vars

\* The handler of a single-shot manager has completed a list that was
\* committed as internal: the list is the last of the free pool and only
\* the completed flag is reported.
C19_Witness ==
    /\ singleshot
    /\ last.op = "irq"
    /\ last.flags = {VSP1_DL_FRAME_END_COMPLETED}
    /\ FreeSeq # <<>>
    /\ dl[FreeSeq[Len(FreeSeq)]].internal

\* C20: a continuous commit of x made when nothing is queued, or when the
\* hardware has taken the queued list, writes x to the hardware, appends
\* the list that was queued (if any) to the free pool, makes x the queued
\* list and leaves the active and the pending list as they were; with
\* nothing queued the outcome is the same for both values of the update
\* bit.
C20_CommitQueues ==
    [][\A x \in Lists :
          (Committing(x) /\ ~singleshot) =>
              /\ (queued = NULL \/ ~hw.upd) =>
                    /\ hw'.hdr_addr = x
                    /\ hw'.upd
                    /\ queued' = x
                    /\ active' = active
                    /\ pending' = pending
                    /\ FreeSeq' = FreeSeq \o (IF queued = NULL THEN <<>> ELSE <<queued>>)
              /\ queued = NULL =>
                    \A u \in BOOLEAN :
                        LET r == vsp1_dl_list_commit_continuous(
                                     [Heap EXCEPT !.hw.upd = u], x).st
                        IN  /\ ~vsp1_dl_list_hw_update_pending([Heap EXCEPT !.hw.upd = u])
                            /\ r.queued = x
                            /\ r.pending = pending
                            /\ r.hw.hdr_addr = x]_vars

\* A commit has replaced the queued list the hardware had taken: the list
\* the hardware runs is the last of the free pool, the committed list is
\* queued and written to the hardware, and the handler has not run.
C20_Witness ==
    /\ ~singleshot
    /\ last.op = "commit"
    /\ queued = last.dl
    /\ hw.hdr_addr = queued
    /\ hw.upd
    /\ hw.irq
    /\ active = NULL
    /\ hw.cur \notin {NULL, queued}
    /\ FreeSeq # <<>>
    /\ FreeSeq[Len(FreeSeq)] = hw.cur

\* C21: the frame end handler of a continuous manager that finds the update
\* of the queued list still pending reports no flag and changes neither the
\* slots, the free pool, gc_fragments, a list nor a hardware register (the
\* interrupt it serves is acknowledged).
C21_DelayedIrqNoEffect ==
    [][(IrqFrameEnd /\ ~singleshot /\ queued # NULL /\ hw.upd) =>
          /\ last'.flags = {}
          /\ UNCHANGED <<active, queued, pending, free, gc_fragments, gc_work,
                         dl, chain, mem>>
          /\ hw' = [hw EXCEPT !.irq = FALSE]]_vars

\* The handler has run with the three slots occupied, the queued list
\* committed as internal and its update not taken by the hardware.
C21_Witness ==
    /\ ~singleshot
    /\ last.op = "irq"
    /\ last.flags = {}
    /\ delayed = queued
    /\ queued # NULL
    /\ hw.upd
    /\ dl[queued].internal
    /\ active # NULL
    /\ pending # NULL

\* C22: the frame end handler of a continuous manager that finds no update
\* pending releases the active list and makes the queued list active when a
\* list is queued, reporting completed, and internal when that list was
\* committed as internal, whose flag it clears; it then writes the pending
\* list to the hardware and makes it the queued list. With nothing queued
\* it reports no flag. No list is pending afterwards.
C22_IrqPromotes ==
    [][(IrqFrameEnd /\ ~singleshot /\ ~(queued # NULL /\ hw.upd)) =>
          /\ pending' = NULL
          /\ queued' = pending
          /\ IF queued # NULL
             THEN /\ active' = queued
                  /\ FreeSeq' = FreeSeq \o (IF active = NULL THEN <<>> ELSE <<active>>)
                  /\ ~dl'[queued].internal
                  /\ last'.flags =
                        {VSP1_DL_FRAME_END_COMPLETED}
                        \cup (IF dl[queued].internal
                              THEN {VSP1_DL_FRAME_END_INTERNAL} ELSE {})
             ELSE /\ active' = active
                  /\ FreeSeq' = FreeSeq
                  /\ last'.flags = {}
          /\ IF pending # NULL
             THEN hw'.hdr_addr = pending /\ hw'.upd
             ELSE hw'.hdr_addr = hw.hdr_addr /\ hw'.upd = hw.upd]_vars

\* The handler has completed an internal list, released the list that was
\* active and written the pending list to the hardware.
C22_Witness ==
    /\ ~singleshot
    /\ last.op = "irq"
    /\ last.flags = {VSP1_DL_FRAME_END_COMPLETED, VSP1_DL_FRAME_END_INTERNAL}
    /\ active # NULL
    /\ queued # NULL
    /\ pending = NULL
    /\ hw.hdr_addr = queued
    /\ hw.upd
    /\ Len(FreeSeq) = 1
    /\ owned = {}

\* C23: a continuous commit of x made while the update of the queued list is
\* pending and a list is pending appends that list to the free pool and
\* makes x the pending list; it warns exactly when the replaced list was
\* committed as internal, and does the same with and without the warning:
\* the queued list, the active list and the hardware registers stay.
C23_PendingOverwritten ==
    [][\A x \in Lists :
          (Committing(x) /\ ~singleshot /\ queued # NULL /\ hw.upd
                         /\ pending # NULL) =>
              /\ FreeSeq' = FreeSeq \o <<pending>>
              /\ pending' = x
              /\ last'.warn = dl[pending].internal
              /\ queued' = queued
              /\ active' = active
              /\ hw' = hw]_vars

\* A commit has replaced a pending list that was committed as internal: the
\* warning is recorded, the replaced list is the last of the free pool.
C23_Witness ==
    /\ ~singleshot
    /\ last.op = "commit"
    /\ last.warn
    /\ pending = last.dl
    /\ queued # NULL
    /\ hw.upd
    /\ FreeSeq # <<>>
    /\ dl[FreeSeq[Len(FreeSeq)]].internal

\* A list has just been committed as internal to a continuous manager.
InternalCommitted ==
    ~singleshot /\ last.op = "commit" /\ dl[last.dl].internal

\* The handler has just reported the internal flag.
InternalReported ==
    last.op = "irq" /\ VSP1_DL_FRAME_END_INTERNAL \in last.flags

\* C24: in a run of a continuous manager in which no commit warns about a
\* replaced pending list, every commit made as internal is followed by a
\* run of the frame end handler that reports the internal flag.
C24_InternalReported ==
    ([]~(last.op = "commit" /\ last.warn))
        => (InternalCommitted ~> InternalReported)

\* C25: the lists are written to the hardware in the order of their commits:
\* the pending list the frame end handler writes to the hardware was
\* committed after the list written before it.
C25_CommitOrder ==
    [][(IrqFrameEnd /\ ~singleshot /\ pending # NULL /\ hw'.hdr_addr = pending
                    /\ queued' = pending) => ~overtaken]_vars

\* C26: in a continuous manager the list the hardware has latched and runs
\* is the active or the queued list; it is not in the free pool and no
\* caller holds it.
C26_RunningListReferenced ==
    (~singleshot /\ hw.cur # NULL) =>
        /\ hw.cur \in {active, queued}
        /\ InFree(hw.cur) = 0
        /\ hw.cur \notin owned

\* C27: vsp1_dl_list_fill_header stays inside lists[8]: a committed list of
\* a header mode manager has its body and at most HEADER_LISTS - 1
\* fragments, and the next_header field of its header is an address of a
\* list (or unset), never the size of a body.
C27_HeaderBounded ==
    [][\A x \in Lists :
          (Commit(x, FALSE) /\ mode = VSP1_DL_MODE_HEADER) =>
              /\ 1 + Len(dl[x].fragments) <= HEADER_LISTS
              /\ dl'[x].header.num_lists < HEADER_LISTS
              /\ dl'[x].header.next_header \in Lists \cup {NULL}]_vars

\* The flags of a header that enable the interrupt.
IntEnabled == {VSP1_DLH_INT_ENABLE, VSP1_DLH_INT_ENABLE + VSP1_DLH_AUTO_START}

\* C28: a commit in header mode enables the interrupt on the last list of
\* the chain only: every list before the last has the flags AUTO_START; the
\* last has INT_ENABLE and AUTO_START in continuous mode and, in single-shot
\* mode, INT_ENABLE alone with its next_header left as it was.
C28_InterruptOnLast ==
    [][\A x \in Lists :
          (Commit(x, FALSE) /\ mode = VSP1_DL_MODE_HEADER) =>
              LET seq == <<x>> \o ChainSeq(x)
                  end == seq[Len(seq)]
              IN  /\ \A i \in 1..(Len(seq) - 1) :
                        dl'[seq[i]].header.flags = VSP1_DLH_AUTO_START
                  /\ IF singleshot
                     THEN /\ dl'[end].header.flags = VSP1_DLH_INT_ENABLE
                          /\ dl'[end].header.next_header = dl[end].header.next_header
                     ELSE dl'[end].header.flags =
                              VSP1_DLH_INT_ENABLE + VSP1_DLH_AUTO_START
                  /\ Cardinality({i \in 1..Len(seq) :
                                     dl'[seq[i]].header.flags \in IntEnabled}) = 1]_vars

\* A head with a chain of two lists has been committed in single-shot mode:
\* the head starts the next list and the last list enables the interrupt.
C28_Witness ==
    /\ mode = VSP1_DL_MODE_HEADER
    /\ singleshot
    /\ last.op = "commit"
    /\ active = last.dl
    /\ Len(ChainSeq(active)) = 2
    /\ dl[active].header.flags = VSP1_DLH_AUTO_START
    /\ dl[ChainSeq(active)[2]].header.flags = VSP1_DLH_INT_ENABLE

\* The number of times s holds e.
Occurrences(s, e) == Cardinality({i \in DOMAIN s : s[i] = e})

\* The number of times the lists of S have fragment e attached.
RECURSIVE AttachedTimes(_, _)
AttachedTimes(S, e) ==
    IF S = {} THEN 0
    ELSE LET l == CHOOSE m \in S : TRUE
         IN  Occurrences(dl[l].fragments, e) + AttachedTimes(S \ {l}, e)

\* The references to fragment f: the lists it is attached to, gc_fragments
\* and the garbage collector that has taken it off gc_fragments to free it.
FragRefs(f) ==
    AttachedTimes(Lists, f) + Occurrences(gc_fragments, f) + Count(gc.dlb = f)

\* C29: a fragment is held by its caller, or attached to one list, or once
\* on gc_fragments (or in the hands of the collector that took it from
\* there), or freed with no reference left; the collector frees a fragment
\* once, and only the one it took from the head of gc_fragments; a fragment
\* attached to a list of a slot is not freed.
C29_FragmentOwnership ==
    /\ [](\A f \in Frags :
            IF dlb[f].state = "allocated" THEN FragRefs(f) <= 1
                                          ELSE FragRefs(f) = 0)
    /\ [](\A l \in SlotMembers : \A f \in Range(dl[l].fragments) :
            dlb[f].state = "allocated")
    /\ [][\A f \in Frags :
            (dlb[f].state # "freed" /\ dlb'[f].state = "freed") =>
                (dlb[f].state = "allocated" /\ gc.dlb = f)]_vars
    /\ [][(gc.dlb = NULL /\ gc'.dlb # NULL) =>
            /\ gc_fragments # <<>>
            /\ gc'.dlb = Head(gc_fragments)
            /\ gc_fragments' = Tail(gc_fragments)]_vars

\* The collector holds a fragment it took from gc_fragments while the queued
\* list has a fragment attached.
C29_Witness ==
    /\ gc.pc = "free"
    /\ gc.dlb # NULL
    /\ queued # NULL
    /\ dl[queued].fragments # <<>>
    /\ dl[queued].fragments # <<gc.dlb>>

\* C30: in a continuous manager a list is pending only while a list is
\* queued.
C30_PendingNeedsQueued ==
    (~singleshot /\ pending # NULL) => queued # NULL

\* The handler has found the update of the queued list pending and left
\* the pending list behind it.
C30_Witness ==
    /\ ~singleshot
    /\ last.op = "irq"
    /\ pending # NULL
    /\ queued # NULL
    /\ active # NULL

\* C31: the frame end handler reports the internal flag only with the
\* completed flag, and once for a commit: the report is for the queued list
\* whose internal flag was set, the flag is cleared as the list becomes
\* active, only a commit made as internal sets the flag of a list, and the
\* active list of a continuous manager never has it set.
C31_InternalOnce ==
    /\ []((last.op = "irq" /\ VSP1_DL_FRAME_END_INTERNAL \in last.flags)
            => VSP1_DL_FRAME_END_COMPLETED \in last.flags)
    /\ []((~singleshot /\ active # NULL) => ~dl[active].internal)
    /\ [][(IrqFrameEnd /\ VSP1_DL_FRAME_END_INTERNAL \in last'.flags) =>
            /\ queued # NULL
            /\ dl[queued].internal
            /\ active' = queued
            /\ ~dl'[queued].internal]_vars
    /\ [][\A l \in Lists :
            (~dl[l].internal /\ dl'[l].internal) => Commit(l, TRUE)]_vars

\* The handler has reported an internal commit as completed: the list is
\* active, its internal flag is clear and nothing else is queued.
C31_Witness ==
    /\ ~singleshot
    /\ last.op = "irq"
    /\ last.flags = {VSP1_DL_FRAME_END_COMPLETED, VSP1_DL_FRAME_END_INTERNAL}
    /\ active # NULL
    /\ ~dl[active].internal
    /\ queued = NULL
    /\ pending = NULL

\* C32: a single-shot manager never has a queued or a pending list: a
\* commit stores its list in the active slot and the frame end handler
\* clears that slot, and neither writes another slot.
C32_SingleshotActiveOnly ==
    /\ [](singleshot => (queued = NULL /\ pending = NULL))
    /\ [][\A x \in Lists :
            (Committing(x) /\ singleshot) =>
                (active' = x /\ queued' = queued /\ pending' = pending)]_vars
    /\ [][(IrqFrameEnd /\ singleshot) =>
            (active' = NULL /\ queued' = queued /\ pending' = pending)]_vars

\* The handler of a single-shot manager has completed the list the hardware
\* ran: the active slot is empty and the list is the last of the free pool.
C32_Witness ==
    /\ singleshot
    /\ last.op = "irq"
    /\ VSP1_DL_FRAME_END_COMPLETED \in last.flags
    /\ active = NULL
    /\ hw.cur # NULL
    /\ FreeSeq # <<>>
    /\ FreeSeq[Len(FreeSeq)] = hw.cur

\* The array arr of a body after a write of some pair at index n of the code.
StoredAt(arr, n) ==
    {[arr EXCEPT ![n + 1] = [addr |-> reg, data |-> data]] : reg \in Regs, data \in Datas}

\* C33: a write to a list or to a fragment stores the pair at the index of
\* the body's entry count, adds one to the count and leaves the other
\* entries as they were; the entry count of a list never goes down except to
\* zero in the step that puts the list in the free pool, every such step
\* leaves it at zero, and the entry count of an allocated fragment never
\* goes down.
C33_WriteAppends ==
    /\ [][\A x \in Lists :
            Write(x) =>
                /\ dl'[x].num_entries = dl[x].num_entries + 1
                /\ entries'.dl[x] \in StoredAt(entries.dl[x], dl[x].num_entries)]_vars
    /\ [][\A f \in Frags :
            FragmentWrite(f) =>
                /\ dlb'[f].num_entries = dlb[f].num_entries + 1
                /\ entries'.dlb[f] \in StoredAt(entries.dlb[f], dlb[f].num_entries)]_vars
    /\ [][\A x \in Lists :
            /\ dl'[x].num_entries < dl[x].num_entries =>
                    (dl'[x].num_entries = 0 /\ InFree(x) = 0 /\ InFree(x)' > 0)
            /\ (InFree(x) = 0 /\ InFree(x)' > 0) => dl'[x].num_entries = 0]_vars
    /\ [][\A f \in Frags :
            (dlb[f].state = "allocated" /\ dlb'[f].state = "allocated") =>
                dlb'[f].num_entries >= dlb[f].num_entries]_vars

\* A list that was written to its last entry and recycled has been
\* written again: its first entry holds the new pair and the entry after it
\* a different pair of the earlier use; a fragment holds two pairs written
\* one after the other.
C33_Witness ==
    /\ \E x \in owned :
        /\ dl[x].num_entries = 1
        /\ entries.dl[x][1].addr \in Regs
        /\ entries.dl[x][ManyEntries].addr \in Regs
        /\ entries.dl[x][1].data # entries.dl[x][ManyEntries].data
    /\ \E f \in Frags :
        /\ dlb[f].num_entries = ManyEntries
        /\ entries.dlb[f][1].data # entries.dlb[f][ManyEntries].data

\* C34: when vsp1_dlm_create returned NULL, every list it had allocated has
\* been freed; when it returned the manager and nothing was called since,
\* the free pool holds the FewLists lists asked for, once each, and the
\* three slots and gc_fragments are empty.
C34_CreateAllOrNothing ==
    /\ ~mem.created => \A x \in Lists : mem.freed[x] = 1
    /\ (mem.created /\ last = NoCall /\ nget = 0) =>
            /\ Len(FreeSeq) = FewLists
            /\ Range(FreeSeq) = 1..FewLists
            /\ active = NULL
            /\ queued = NULL
            /\ pending = NULL
            /\ gc_fragments = <<>>
            /\ \A x \in Lists : mem.freed[x] = 0

\* C35: once vsp1_dlm_destroy has run on the manager, every list was freed
\* exactly once and no fragment is left on a list or on gc_fragments: the
\* fragments that were attached to a list have been freed.
C35_DestroyFreesAll ==
    mem.destroyed =>
        /\ \A x \in Lists : mem.freed[x] = 1
        /\ \A f \in Frags : f \in Attached => dlb[f].state = "freed"

\* C36: in header mode the header of a list is at the device address of the
\* body plus 256 entries of 8 bytes, the allocation is those 256 * 8 bytes
\* plus the size of the header rounded up to a multiple of 8, and entry 0
\* of the header holds the device address of the body; in headerless mode
\* the list has no header and the allocation is 256 * 8 bytes; no step
\* changes the addresses, the size or the address in entry 0 of the header.
C36_HeaderLayout ==
    /\ [](\A x \in Lists :
            IF mode = VSP1_DL_MODE_HEADER
            THEN /\ dl[x].dma = dl[x].body0.dma + 256 * 8
                 /\ dl[x].body0.size - 256 * 8 >= HEADER_SIZE
                 /\ dl[x].body0.size - 256 * 8 < HEADER_SIZE + 8
                 /\ (dl[x].body0.size - 256 * 8) % 8 = 0
                 /\ dl[x].header # NoHeader
                 /\ dl[x].header.lists[1].addr = dl[x].body0.dma
            ELSE /\ dl[x].header = NoHeader
                 /\ dl[x].dma = NULL
                 /\ dl[x].body0.size = 256 * 8)
    /\ [][\A x \in Lists :
            /\ dl'[x].body0 = dl[x].body0
            /\ dl'[x].dma = dl[x].dma
            /\ mode = VSP1_DL_MODE_HEADER =>
                    dl'[x].header.lists[1].addr = dl[x].header.lists[1].addr]_vars

\* A header mode list whose body is not in the first slot was committed
\* with entries and a fragment, ran and is back in the free pool: its
\* header still describes the fragment.
C36_Witness ==
    /\ mode = VSP1_DL_MODE_HEADER
    /\ \E x \in Range(FreeSeq) :
        /\ dl[x].body0.dma # DmaSlot
        /\ dl[x].header.num_lists = 1
        /\ dl[x].header.lists[1].num_bytes = MaxEntries * ENTRY_SIZE
        /\ dl[x].header.lists[2].addr # NULL
        /\ hw.cur = x

====
